---- MODULE Spec2Model ----
(***************************************************************************)
(* Model of src/app.py: the loader charger_donnees, the map builder        *)
(* creer_carte_consommations, the dashboard factory creer_tableau_bord     *)
(* with its five Dash callbacks, and the entry points main / __main__.     *)
(*                                                                         *)
(* Conventions                                                             *)
(*  - a DataFrame is a sequence of records (one record per row, one field  *)
(*    per column), in file order;                                          *)
(*  - a date is the ISO string "YYYY-MM-DD" of the CSV; the code compares  *)
(*    these strings with <= and sorts them, which on ISO strings is the    *)
(*    calendar order, so a date is modelled by its day number 1..MaxDate;  *)
(*  - Python strings that the code orders (group keys) carry their rank    *)
(*    under Python's string comparison (Rang);                             *)
(*  - a float quotient a/b is kept as the exact fraction [num, den];       *)
(*  - Python list indices are 0-based; sequences here are 1-based, so      *)
(*    l[i] of the code is l[i + 1] here.                                   *)
(***************************************************************************)
EXTENDS Integers, Sequences, FiniteSets, TLC

VARIABLES fichiers, pc, lus, donnees, carte, app, serveur, erreur, reponse

vars == <<fichiers, pc, lus, donnees, carte, app, serveur, erreur, reponse>>

(***************************************************************************)
(* Bounds of the model                                                     *)
(***************************************************************************)
\* number of distinct calendar days in the input files
MaxDate == 2
\* longest table of the specifications that vary one table at a time
MaxRows == 2
\* longest table of the whole-program specification
MaxRowsCycle == 2

(***************************************************************************)
(* Value domains of the CSV columns                                        *)
(***************************************************************************)
\* keys of the dict offsets ("Etage 1" stands for the accented name)
Niveaux == {"RDC", "Etage 1"}

\* keys of the dict orientations
Orientations == {"Nord", "Est"}

Usages == {"chauffage", "eclairage"}

Dates == 1..MaxDate

\* the values of a measure column (consommation, production, temperature):
\* two different amounts, which is what tells a sum from a count or a mean
Valeurs == {1, 2}

\* rank of a string under Python's str comparison: "Est" < "Nord" < "Ouest"
\* < "Sud", "RDC" < "Étage 1" < "Étage 2" < "Étage 3" ('R' < 'É'),
\* "Zone 1" < "Zone 2"
Rang == [s \in {"Est", "Nord", "Ouest", "Sud", "RDC", "Etage 1", "Etage 2", "Etage 3", "Zone 1", "Zone 2"} |->
           CASE s = "Est" -> 1 [] s = "Nord" -> 2 [] s = "Ouest" -> 3 [] s = "Sud" -> 4
             [] s = "RDC" -> 1 [] s = "Etage 1" -> 2 [] s = "Etage 2" -> 3 [] s = "Etage 3" -> 4
             [] s = "Zone 1" -> 1 [] s = "Zone 2" -> 2]

\* rank of the value v of column col: numbers and dates by value, strings
\* by Python's string order
RangColonne(col, v) == IF col \in {"date", "zone_id", "consommation", "production", "temperature"} THEN v ELSE Rang[v]

(***************************************************************************)
(* Sequences                                                               *)
(***************************************************************************)
Range(s) == {s[i] : i \in DOMAIN s}

\* all sequences over S of length at most n
SeqMax(S, n) == UNION {[1..k -> S] : k \in 0..n}

\* lexicographic order on two integer tuples of the same length
RECURSIVE LexLess(_, _)
LexLess(a, b) ==
    IF a = <<>> THEN FALSE
    ELSE IF Head(a) # Head(b) THEN Head(a) < Head(b)
    ELSE LexLess(Tail(a), Tail(b))

\* df[col]: the column col of a table
Colonne(df, col) == [i \in DOMAIN df |-> df[i][col]]

\* Series.unique(): the distinct values in order of first appearance
RECURSIVE unique(_)
unique(s) ==
    IF s = <<>> THEN <<>>
    ELSE LET debut == unique(SubSeq(s, 1, Len(s) - 1))
             x == s[Len(s)]
         IN  IF x \in Range(debut) THEN debut ELSE Append(debut, x)

\* insertion of x in the ascending list l, after the elements equal to it
RECURSIVE Inserer(_, _)
Inserer(l, x) ==
    IF l = <<>> THEN <<x>>
    ELSE IF x < Head(l) THEN <<x>> \o l
    ELSE <<Head(l)>> \o Inserer(Tail(l), x)

\* sorted(l) on a list of dates
RECURSIVE sorted(_)
sorted(l) ==
    IF l = <<>> THEN <<>>
    ELSE Inserer(sorted(SubSeq(l, 1, Len(l) - 1)), l[Len(l)])

\* sum of the column col of a table
RECURSIVE Somme(_, _)
Somme(df, col) ==
    IF df = <<>> THEN 0 ELSE df[1][col] + Somme(Tail(df), col)

(***************************************************************************)
(* DataFrame.groupby(cols)[col].sum() / .mean() followed by reset_index()  *)
(***************************************************************************)
\* the group key of a row
Cle(r, cols) == [i \in DOMAIN cols |-> r[cols[i]]]

\* the key as a tuple of ranks, which is how pandas orders the group keys
RangCle(cle, cols) == [i \in DOMAIN cols |-> RangColonne(cols[i], cle[i])]

RECURSIVE InsererCle(_, _, _)
InsererCle(l, k, cols) ==
    IF l = <<>> THEN <<k>>
    ELSE IF LexLess(RangCle(k, cols), RangCle(Head(l), cols)) THEN <<k>> \o l
    ELSE <<Head(l)>> \o InsererCle(Tail(l), k, cols)

RECURSIVE TrierCles(_, _)
TrierCles(l, cols) ==
    IF l = <<>> THEN <<>>
    ELSE InsererCle(TrierCles(SubSeq(l, 1, Len(l) - 1), cols), l[Len(l)], cols)

\* group keys in order of first appearance (what sort=False would give)
ClesNonTriees(df, cols) == unique([i \in DOMAIN df |-> Cle(df[i], cols)])

\* groupby(cols) with the default sort=True: the distinct keys, ascending
ClesGroupes(df, cols) == TrierCles(unique([i \in DOMAIN df |-> Cle(df[i], cols)]), cols)

\* the rows of one group, in table order
Groupe(df, cols, cle) == SelectSeq(df, LAMBDA r : Cle(r, cols) = cle)

\* one row of the aggregated frame after reset_index(): the key columns
\* and the aggregated column
Ligne(cols, cle, col, v) ==
    [c \in Range(cols) \cup {col} |->
        IF c = col THEN v ELSE cle[CHOOSE i \in DOMAIN cols : cols[i] = c]]

groupby_sum(df, cols, col) ==
    LET cles == ClesGroupes(df, cols)
    IN  [j \in DOMAIN cles |-> Ligne(cols, cles[j], col, Somme(Groupe(df, cols, cles[j]), col))]

\* the sum of a group in place of its mean
SommePourMoyenne(g, col) == [num |-> Somme(g, col), den |-> 1]

\* Series.mean() of a non-empty group: sum / count
Moyenne(g, col) == [num |-> Somme(g, col), den |-> Len(g)]

groupby_mean(df, cols, col) ==
    LET cles == ClesGroupes(df, cols)
    IN  [j \in DOMAIN cles |-> Ligne(cols, cles[j], col, Moyenne(Groupe(df, cols, cles[j]), col))]

(***************************************************************************)
(* Resolution of a slider index to a date                                  *)
(***************************************************************************)
\* the distinct dates in file order, the call to sorted left out
dates_non_triees(df) == unique(Colonne(df, "date"))

\* dates_triees = sorted(df["date"].unique())
dates_triees(df) == sorted(unique(Colonne(df, "date")))

\* dates_triees[i] of update_consommation_orientation and
\* update_tableau_consommations: IndexError when i is past the end
IndexDirect(l, i) ==
    IF i < Len(l) THEN [ok |-> TRUE, date |-> l[i + 1]]
    ELSE [ok |-> FALSE, date |-> 0]

\* dates_triees[i] if i < len(dates_triees) else dates_triees[-1]
\* of update_production_pv and update_temperature: IndexError on [][-1]
IndexBorne(l, i) ==
    IF i < Len(l) THEN [ok |-> TRUE, date |-> l[i + 1]]
    ELSE IF Len(l) = 0 THEN [ok |-> FALSE, date |-> 0]
    ELSE [ok |-> TRUE, date |-> l[Len(l)]]

(***************************************************************************)
(* The boolean-mask filters of the callbacks                               *)
(***************************************************************************)
\* the filter of the consumption callbacks without its usage condition
FiltreSansUsage(df, niveau, usage, date_debut, date_fin) ==
    SelectSeq(df, LAMBDA r : /\ r.niveau = niveau
                             /\ r.date >= date_debut
                             /\ r.date <= date_fin)

FiltreConsommation(df, niveau, usage, date_debut, date_fin) ==
    SelectSeq(df, LAMBDA r : /\ r.niveau = niveau
                             /\ r.usage = usage
                             /\ r.date >= date_debut
                             /\ r.date <= date_fin)

FiltreEvolution(df, niveau, usage) ==
    SelectSeq(df, LAMBDA r : r.niveau = niveau /\ r.usage = usage)

\* the production filter with an exclusive upper bound
FiltreProductionStrict(df, date_debut, date_fin) ==
    SelectSeq(df, LAMBDA r : r.date >= date_debut /\ r.date < date_fin)

FiltreProduction(df, date_debut, date_fin) ==
    SelectSeq(df, LAMBDA r : r.date >= date_debut /\ r.date <= date_fin)

FiltreTemperature(df, niveau, date_debut, date_fin) ==
    SelectSeq(df, LAMBDA r : /\ r.niveau = niveau
                             /\ r.date >= date_debut
                             /\ r.date <= date_fin)

(***************************************************************************)
(* charger_donnees                                                         *)
(***************************************************************************)
\* the value of a name that is not bound yet
Indefini == [type |-> "indefini"]

\* Python's None
None == [type |-> "None"]

\* a dict of the tables read before the failure
RetourPartiel(l) ==
    [type |-> "dict",
     consommation |-> IF Len(l) >= 1 THEN l[1] ELSE <<>>,
     production |-> IF Len(l) >= 2 THEN l[2] ELSE <<>>,
     temperature |-> IF Len(l) >= 3 THEN l[3] ELSE <<>>,
     co2 |-> IF Len(l) >= 4 THEN l[4] ELSE <<>>,
     metadata |-> IF Len(l) >= 5 THEN l[5] ELSE <<>>]

\* except Exception as e: print(...); return None
\* (l: the values read before the exception)
RetourException(l) == None

\* the dict returned once the five reads have succeeded
RetourSucces(l) ==
    [type |-> "dict", consommation |-> l[1], production |-> l[2],
     temperature |-> l[3], co2 |-> l[4], metadata |-> l[5]]

\* one read of charger_donnees (pd.read_csv or json.load) of file f, the
\* k-th of the try block: it raises when the file is missing or malformed,
\* and the except clause returns to main; lus are the locals of the call,
\* gone when it returns
Lire(k, f, suite) ==
    /\ Len(lus) = k - 1
    /\ IF fichiers[f].lisible
       THEN /\ lus' = IF suite = "main_test" THEN <<>> ELSE Append(lus, fichiers[f].contenu)
            /\ pc' = suite
            /\ donnees' = IF suite = "main_test"
                          THEN RetourSucces(Append(lus, fichiers[f].contenu))
                          ELSE donnees
       ELSE /\ lus' = <<>>
            /\ pc' = "main_test"
            /\ donnees' = RetourException(lus)
    /\ UNCHANGED <<fichiers, carte, app, serveur, erreur, reponse>>

lire_consommation == pc = "lire_consommation" /\ Lire(1, "consommation", "lire_production")

lire_production == pc = "lire_production" /\ Lire(2, "production", "lire_temperature")

lire_temperature == pc = "lire_temperature" /\ Lire(3, "temperature", "lire_co2")

lire_co2 == pc = "lire_co2" /\ Lire(4, "co2", "lire_metadata")

lire_metadata == pc = "lire_metadata" /\ Lire(5, "metadata", "main_test")

(***************************************************************************)
(* creer_carte_consommations and get_color_for_value                       *)
(***************************************************************************)
\* offsets[niveau]["z"], in units of 0.0001 degree
offsets == [n \in {"RDC", "Etage 1", "Etage 2", "Etage 3"} |->
              CASE n = "RDC" -> 0 [] n = "Etage 1" -> 1 [] n = "Etage 2" -> 2 [] n = "Etage 3" -> 3]

\* orientations[orientation], in units of 0.0001 degree
orientations == [o \in {"Nord", "Sud", "Est", "Ouest"} |->
                   CASE o = "Nord" -> [x |-> 0, y |-> 2] [] o = "Sud" -> [x |-> 0, y |-> -2]
                     [] o = "Est" -> [x |-> 2, y |-> 0] [] o = "Ouest" -> [x |-> -2, y |-> 0]]

\* the colour of the fraction value = num / den; den = 0 is NaN, for which
\* every comparison is False
get_color_for_value(value) ==
    IF value.den = 0 THEN "red"
    ELSE IF 10 * value.num < 4 * value.den THEN "blue"
    ELSE IF 100 * value.num < 65 * value.den THEN "lime"
    ELSE IF 10 * value.num < 8 * value.den THEN "yellow"
    ELSE "red"

\* Series.max(): NaN (den = 0 below) on an empty series
MaxSerie(s) == IF s = <<>> THEN 0 ELSE CHOOSE m \in Range(s) : \A x \in Range(s) : x <= m

\* the rows of df_zones built from the per-zone totals
ZonesDe(df) ==
    LET consommation_par_zone == groupby_sum(df, <<"zone_id", "zone_nom", "niveau", "orientation">>, "consommation")
        consommation_max == MaxSerie(Colonne(consommation_par_zone, "consommation"))
    IN  [i \in DOMAIN consommation_par_zone |->
           LET zone == consommation_par_zone[i]
               normalisee == [num |-> zone.consommation, den |-> consommation_max]
           IN  [zone_id |-> zone.zone_id, zone_nom |-> zone.zone_nom,
                niveau |-> zone.niveau, orientation |-> zone.orientation,
                consommation |-> zone.consommation,
                consommation_normalisee |-> normalisee,
                latitude |-> orientations[zone.orientation].y + offsets[zone.niveau],
                longitude |-> orientations[zone.orientation].x + offsets[zone.niveau],
                fill_color |-> get_color_for_value(normalisee)]]

\* the function writing the column consommation_normalisee into the
\* table it was given instead of into the aggregated copy
creer_carte_en_place(df) ==
    LET m == MaxSerie(Colonne(df, "consommation"))
    IN  [df_consommation |-> [i \in DOMAIN df |->
                                [c \in DOMAIN df[i] \cup {"consommation_normalisee"} |->
                                    IF c = "consommation_normalisee"
                                    THEN [num |-> df[i].consommation, den |-> m]
                                    ELSE df[i][c]]],
         df_zones |-> ZonesDe(df)]

\* creer_carte_consommations(df_consommation): the table it was given as
\* the call leaves it, and the returned df_zones (also saved as the map's
\* markers and as zones_geo.csv)
creer_carte_consommations(df) == [df_consommation |-> df, df_zones |-> ZonesDe(df)]

(***************************************************************************)
(* creer_tableau_bord: the layout; the callbacks follow                    *)
(***************************************************************************)
Callbacks == {"update_consommation_orientation", "update_evolution_consommation",
              "update_production_pv", "update_temperature", "update_tableau_consommations"}

PasDApp == [cree |-> FALSE, niveaux |-> <<>>, usages |-> <<>>, slider_max |-> -1, callbacks |-> {}]

\* (line 178, "server = app.server", stands at column 0 in the middle of
\* this function; it is read here as a statement of the function body,
\* where its neighbours are, and it changes none of the modelled state)
\* the Dash application built from the dataset d: the options of the two
\* dropdowns, the range of the period slider and the registered callbacks;
\* df_consommation[...].unique()[0] raises IndexError on an empty table
creer_tableau_bord(d) ==
    IF d.consommation = <<>> THEN [erreur |-> "IndexError", app |-> PasDApp]
    ELSE [erreur |-> "aucune",
          app |-> [cree |-> TRUE,
                   niveaux |-> unique(Colonne(d.consommation, "niveau")),
                   usages |-> unique(Colonne(d.consommation, "usage")),
                   slider_max |-> Len(unique(Colonne(d.consommation, "date"))) - 1,
                   callbacks |-> Callbacks]]

\* the values the period slider can take: [i, j], min <= i <= j <= max
Periodes(a) == {p \in (0..a.slider_max) \X (0..a.slider_max) : p[1] <= p[2]}

(***************************************************************************)
(* The five callbacks, as functions of the tables and of their inputs      *)
(***************************************************************************)
\* the request ended in an uncaught exception: no figure is returned
Echec(exception) == [statut |-> exception, date_debut |-> 0, date_fin |-> 0, lignes |-> <<>>]

\* the callback returned; lignes are the rows of the frame handed to plotly
Figure(date_debut, date_fin, lignes) ==
    [statut |-> "ok", date_debut |-> date_debut, date_fin |-> date_fin, lignes |-> lignes]

update_consommation_orientation_f(d, niveau, usage, periode) ==
    LET l == dates_triees(d.consommation)
        date_debut == IndexDirect(l, periode[1])
        date_fin == IndexDirect(l, periode[2])
    IN  IF ~date_debut.ok \/ ~date_fin.ok THEN Echec("IndexError")
        ELSE Figure(date_debut.date, date_fin.date,
                    groupby_sum(FiltreConsommation(d.consommation, niveau, usage, date_debut.date, date_fin.date),
                                <<"orientation">>, "consommation"))

\* periode is not an input of this callback: it resolves no date
update_evolution_consommation_f(d, niveau, usage) ==
    Figure(0, 0, groupby_sum(FiltreEvolution(d.consommation, niveau, usage),
                             <<"date", "orientation">>, "consommation"))

update_production_pv_f(d, periode) ==
    LET l == dates_triees(d.production)
        date_debut == IndexBorne(l, periode[1])
        date_fin == IndexBorne(l, periode[2])
    IN  IF ~date_debut.ok \/ ~date_fin.ok THEN Echec("IndexError")
        ELSE Figure(date_debut.date, date_fin.date,
                    FiltreProduction(d.production, date_debut.date, date_fin.date))

update_temperature_f(d, niveau, periode) ==
    LET l == dates_triees(d.temperature)
        date_debut == IndexBorne(l, periode[1])
        date_fin == IndexBorne(l, periode[2])
    IN  IF ~date_debut.ok \/ ~date_fin.ok THEN Echec("IndexError")
        ELSE Figure(date_debut.date, date_fin.date,
                    groupby_mean(FiltreTemperature(d.temperature, niveau, date_debut.date, date_fin.date),
                                 <<"date", "orientation">>, "temperature"))

\* f"{row['consommation']:.2f}": the total rounded to hundredths, kept as
\* a number of hundredths
Format2f(v) == 100 * v

update_tableau_consommations_f(d, niveau, usage, periode) ==
    LET l == dates_triees(d.consommation)
        date_debut == IndexDirect(l, periode[1])
        date_fin == IndexDirect(l, periode[2])
    IN  IF ~date_debut.ok \/ ~date_fin.ok THEN Echec("IndexError")
        ELSE LET consommation_par_zone ==
                     groupby_sum(FiltreConsommation(d.consommation, niveau, usage, date_debut.date, date_fin.date),
                                 <<"zone_nom", "orientation">>, "consommation")
             IN  Figure(date_debut.date, date_fin.date,
                        [i \in DOMAIN consommation_par_zone |->
                            [zone_nom |-> consommation_par_zone[i].zone_nom,
                             orientation |-> consommation_par_zone[i].orientation,
                             consommation |-> Format2f(consommation_par_zone[i].consommation)]])

(***************************************************************************)
(* The callbacks as served requests.  A request carries the values of the  *)
(* three controls of the page at the time it is made; each callback reads  *)
(* only its own Inputs.  reponse is the answer to the latest request.      *)
(***************************************************************************)
PasDeReponse == [callback |-> "aucun", niveau |-> "", usage |-> "", periode |-> <<0, 0>>,
                 statut |-> "aucun", date_debut |-> 0, date_fin |-> 0, lignes |-> <<>>]

Repondre(nom, niveau, usage, periode, r) ==
    /\ reponse' = [callback |-> nom, niveau |-> niveau, usage |-> usage, periode |-> periode,
                   statut |-> r.statut, date_debut |-> r.date_debut, date_fin |-> r.date_fin,
                   lignes |-> r.lignes]
    /\ UNCHANGED <<fichiers, pc, lus, donnees, carte, app, serveur, erreur>>

Servi(nom) == serveur /\ pc = "serving" /\ nom \in app.callbacks

update_consommation_orientation ==
    /\ Servi("update_consommation_orientation")
    /\ \E niveau \in Range(app.niveaux), usage \in Range(app.usages), periode \in Periodes(app) :
          Repondre("update_consommation_orientation", niveau, usage, periode,
                   update_consommation_orientation_f(donnees, niveau, usage, periode))

update_evolution_consommation ==
    /\ Servi("update_evolution_consommation")
    /\ \E niveau \in Range(app.niveaux), usage \in Range(app.usages), periode \in Periodes(app) :
          Repondre("update_evolution_consommation", niveau, usage, periode,
                   update_evolution_consommation_f(donnees, niveau, usage))

update_production_pv ==
    /\ Servi("update_production_pv")
    /\ \E niveau \in Range(app.niveaux), usage \in Range(app.usages), periode \in Periodes(app) :
          Repondre("update_production_pv", niveau, usage, periode,
                   update_production_pv_f(donnees, periode))

update_temperature ==
    /\ Servi("update_temperature")
    /\ \E niveau \in Range(app.niveaux), usage \in Range(app.usages), periode \in Periodes(app) :
          Repondre("update_temperature", niveau, usage, periode,
                   update_temperature_f(donnees, niveau, periode))

update_tableau_consommations ==
    /\ Servi("update_tableau_consommations")
    /\ \E niveau \in Range(app.niveaux), usage \in Range(app.usages), periode \in Periodes(app) :
          Repondre("update_tableau_consommations", niveau, usage, periode,
                   update_tableau_consommations_f(donnees, niveau, usage, periode))

(***************************************************************************)
(* main and the __main__ block                                             *)
(***************************************************************************)
PasDeCarte == [cree |-> FALSE, df_zones |-> <<>>]

\* a module-level Dash application
app_global_lie == [type |-> "Dash"]

\* the module-level name app: no statement of the module binds it (app is
\* a local of creer_tableau_bord and of main)
app_global == Indefini

\* if __name__ == "__main__": port = ...; app.run(...): main() is not
\* called; the lookup of the unbound name app raises NameError
script_principal ==
    /\ pc = "debut"
    /\ IF app_global.type = "indefini"
       THEN erreur' = "NameError" /\ pc' = "arret" /\ serveur' = serveur
       ELSE erreur' = erreur /\ pc' = "serving" /\ serveur' = TRUE
    /\ UNCHANGED <<fichiers, lus, donnees, carte, app, reponse>>

\* main() is entered: donnees = charger_donnees() begins
main_appel ==
    /\ pc = "debut"
    /\ pc' = "lire_consommation"
    /\ UNCHANGED <<fichiers, lus, donnees, carte, app, serveur, erreur, reponse>>

\* if donnees is None: print(...); return
main_test ==
    /\ pc = "main_test"
    /\ pc' = IF donnees = None THEN "termine" ELSE "carte"
    /\ UNCHANGED <<fichiers, lus, donnees, carte, app, serveur, erreur, reponse>>

\* df_zones = creer_carte_consommations(donnees["consommation"]) and the
\* copy of the map into assets/
main_carte ==
    /\ pc = "carte"
    /\ LET r == creer_carte_consommations(donnees.consommation)
       IN  /\ donnees' = [donnees EXCEPT !.consommation = r.df_consommation]
           /\ carte' = [cree |-> TRUE, df_zones |-> r.df_zones]
    /\ pc' = "tableau_bord"
    /\ UNCHANGED <<fichiers, lus, app, serveur, erreur, reponse>>

\* app = creer_tableau_bord(donnees)
main_tableau_bord ==
    /\ pc = "tableau_bord"
    /\ LET r == creer_tableau_bord(donnees)
       IN  /\ app' = r.app
           /\ erreur' = r.erreur
           /\ pc' = IF r.erreur = "aucune" THEN "run" ELSE "arret"
    /\ UNCHANGED <<fichiers, lus, donnees, carte, serveur, reponse>>

\* app.run(debug=True)
main_run ==
    /\ pc = "run"
    /\ serveur' = TRUE
    /\ pc' = "serving"
    /\ UNCHANGED <<fichiers, lus, donnees, carte, app, erreur, reponse>>

(***************************************************************************)
(* The input files                                                         *)
(***************************************************************************)
\* a zone lies on one level: the zone of a row is given by its niveau
ZoneDe(niveau) == IF niveau = "RDC" THEN 1 ELSE 2

ZoneNom(z) == IF z = 1 THEN "Zone 1" ELSE "Zone 2"

\* rows of consommation.csv over the given column values
LignesConsommation(N, U, O, V) ==
    {[zone_id |-> ZoneDe(n), zone_nom |-> ZoneNom(ZoneDe(n)), niveau |-> n, orientation |-> o,
      usage |-> u, date |-> dt, consommation |-> v] :
        n \in N, u \in U, o \in O, dt \in Dates, v \in V}

\* rows of production.csv
LignesProduction(V) == {[date |-> dt, production |-> v] : dt \in Dates, v \in V}

\* rows of temperature.csv
LignesTemperature(N, O, V) ==
    {[niveau |-> n, orientation |-> o, date |-> dt, temperature |-> v] :
        n \in N, o \in O, dt \in Dates, v \in V}

\* co2.csv: one reading per day
TableCo2 == [i \in 1..MaxDate |-> [date |-> i, co2 |-> 1]]

\* metadata.json
Metadata == [surface_totale |-> 1, surface_pv |-> 1, consommation_totale |-> 1,
             production_totale |-> 1, temperature_moyenne |-> 1, co2_moyen |-> 1,
             date_generation |-> 1]

\* a file that cannot be read or parsed, and the readable file of content c
Illisible == [lisible |-> FALSE, contenu |-> <<>>]

Lisible(c) == [lisible |-> TRUE, contenu |-> c]

FichiersDe(T) == {Illisible} \cup {Lisible(t) : t \in T}

\* the tables of the whole-program specification: one level, one usage,
\* one orientation, unit values; the dates, the order and the length of the
\* consumption and production tables vary; the temperature table is empty,
\* or has every day, or has the last day only
TablesConsoCycle == SeqMax(LignesConsommation({"RDC"}, {"chauffage"}, {"Nord"}, {1}), MaxRowsCycle)

TablesProdCycle == SeqMax(LignesProduction({1}), MaxRowsCycle)

\* one table per file, fixed, for the specifications that vary another one
ConsoFixe ==
    [i \in 1..(2 * MaxDate) |->
        LET n == IF i <= MaxDate THEN "RDC" ELSE "Etage 1"
        IN  [zone_id |-> ZoneDe(n), zone_nom |-> ZoneNom(ZoneDe(n)), niveau |-> n,
             orientation |-> "Nord", usage |-> "chauffage",
             date |-> ((i - 1) % MaxDate) + 1, consommation |-> 1]]

ProdFixe == [i \in 1..MaxDate |-> [date |-> i, production |-> 1]]

TempFixe == [i \in 1..MaxDate |-> [niveau |-> "RDC", orientation |-> "Nord", date |-> i, temperature |-> 1]]

TablesTempCycle == {<<>>, TempFixe, SubSeq(TempFixe, MaxDate, MaxDate)}

(***************************************************************************)
(* Specifications                                                          *)
(***************************************************************************)
\* the process starts: nothing is read, built or served yet
Init ==
    /\ fichiers \in [consommation : FichiersDe(TablesConsoCycle),
                     production : FichiersDe(TablesProdCycle),
                     temperature : FichiersDe(TablesTempCycle),
                     co2 : FichiersDe({TableCo2}),
                     metadata : FichiersDe({Metadata})]
    /\ pc = "debut"
    /\ lus = <<>>
    /\ donnees = Indefini
    /\ carte = PasDeCarte
    /\ app = PasDApp
    /\ serveur = FALSE
    /\ erreur = "aucune"
    /\ reponse = PasDeReponse

\* the state main() reaches when it serves the tables c, p and t
Sert(c, p, t) ==
    /\ fichiers = [consommation |-> Lisible(c), production |-> Lisible(p),
                   temperature |-> Lisible(t), co2 |-> Lisible(TableCo2),
                   metadata |-> Lisible(Metadata)]
    /\ pc = "serving"
    /\ lus = <<>>
    /\ donnees = [RetourSucces(<<c, p, t, TableCo2, Metadata>>)
                    EXCEPT !.consommation = creer_carte_consommations(c).df_consommation]
    /\ carte = [cree |-> TRUE, df_zones |-> creer_carte_consommations(c).df_zones]
    /\ app = creer_tableau_bord(donnees).app
    /\ serveur = TRUE
    /\ erreur = "aucune"
    /\ reponse = PasDeReponse

\* the served dashboard over every non-empty consumption table
InitConsommation ==
    \E c \in SeqMax(LignesConsommation(Niveaux, Usages, Orientations, Valeurs), MaxRows) \ {<<>>} :
        Sert(c, ProdFixe, TempFixe)

\* the served dashboard over every production table
InitProduction ==
    \E p \in SeqMax(LignesProduction(Valeurs), MaxRows) : Sert(ConsoFixe, p, TempFixe)

\* the served dashboard over every temperature table
InitTemperature ==
    \E t \in SeqMax(LignesTemperature(Niveaux, Orientations, Valeurs), MaxRows) :
        Sert(ConsoFixe, ProdFixe, t)

Requetes ==
    \/ update_consommation_orientation
    \/ update_evolution_consommation
    \/ update_production_pv
    \/ update_temperature
    \/ update_tableau_consommations

Next ==
    \/ script_principal
    \/ main_appel
    \/ lire_consommation
    \/ lire_production
    \/ lire_temperature
    \/ lire_co2
    \/ lire_metadata
    \/ main_test
    \/ main_carte
    \/ main_tableau_bord
    \/ main_run
    \/ Requetes

Spec == Init /\ [][Next]_vars

\* One callback over every table of the file it reads.  An answer depends
\* on the tables and on the request only, never on an earlier answer, so
\* these specifications follow each behaviour for its first request.
SpecOrientation ==
    InitConsommation /\ [][reponse.callback = "aucun" /\ update_consommation_orientation]_vars

SpecEvolution ==
    InitConsommation /\ [][reponse.callback = "aucun" /\ update_evolution_consommation]_vars

SpecProduction ==
    InitProduction /\ [][reponse.callback = "aucun" /\ update_production_pv]_vars

SpecTemperature ==
    InitTemperature /\ [][reponse.callback = "aucun" /\ update_temperature]_vars

(***************************************************************************)
(* Vocabulary of the properties, stated on the tables themselves           *)
(***************************************************************************)
\* the sum of column col over the rows of df whose index is in S
RECURSIVE SommeSur(_, _, _)
SommeSur(df, S, col) ==
    IF S = {} THEN 0
    ELSE LET i == CHOOSE k \in S : TRUE
         IN  df[i][col] + SommeSur(df, S \ {i}, col)

\* the dates that occur in a table
DatesDe(df) == {df[i].date : i \in DOMAIN df}

\* the date of rank i (from 0) among the dates of a table, in calendar order
DateDeRang(df, i) ==
    CHOOSE dt \in DatesDe(df) : Cardinality({e \in DatesDe(df) : e < dt}) = i

\* the indices of the consumption rows of the level, the usage and the
\* dates [debut, fin] of the latest request
IndicesConsommation(debut, fin) ==
    {i \in DOMAIN donnees.consommation :
        /\ donnees.consommation[i].niveau = reponse.niveau
        /\ donnees.consommation[i].usage = reponse.usage
        /\ debut <= donnees.consommation[i].date
        /\ donnees.consommation[i].date <= fin}

\* the indices of the temperature rows of the level and the dates of the
\* latest request
IndicesTemperature ==
    {i \in DOMAIN donnees.temperature :
        /\ donnees.temperature[i].niveau = reponse.niveau
        /\ reponse.date_debut <= donnees.temperature[i].date
        /\ donnees.temperature[i].date <= reponse.date_fin}

\* the indices of the production rows within the dates of the latest request
IndicesProduction ==
    {i \in DOMAIN donnees.production :
        /\ reponse.date_debut <= donnees.production[i].date
        /\ donnees.production[i].date <= reponse.date_fin}

\* alphabetical order of two orientation names
OrientationAvant(a, b) ==
    <<a, b>> \in {<<"Est", "Nord">>, <<"Est", "Ouest">>, <<"Est", "Sud">>,
                  <<"Nord", "Ouest">>, <<"Nord", "Sud">>, <<"Ouest", "Sud">>}

TousLisibles == \A f \in DOMAIN fichiers : fichiers[f].lisible

(***************************************************************************)
(* Properties                                                              *)
(***************************************************************************)
\* C1: update_consommation_orientation returns one row per orientation that
\* has a matching record (same level, same usage, date within the inclusive
\* range) and no other row; the total of a row is the sum of consumption
\* over exactly the matching records of its orientation, and the totals of
\* all rows add up to the sum over all matching records.
C1_ConsommationParOrientation ==
    reponse.callback = "update_consommation_orientation" =>
        LET df == donnees.consommation
            I == IndicesConsommation(reponse.date_debut, reponse.date_fin)
            L == reponse.lignes
        IN  /\ reponse.statut = "ok"
            /\ \A o \in {df[i].orientation : i \in DOMAIN df} :
                  Cardinality({j \in DOMAIN L : L[j].orientation = o})
                      = IF \E i \in I : df[i].orientation = o THEN 1 ELSE 0
            /\ \A j \in DOMAIN L :
                  /\ \E i \in I : df[i].orientation = L[j].orientation
                  /\ L[j].consommation = SommeSur(df, {i \in I : df[i].orientation = L[j].orientation}, "consommation")
            /\ SommeSur(L, DOMAIN L, "consommation") = SommeSur(df, I, "consommation")

\* C1 happens: a request answered with one orientation, one record of the
\* table counted and the other left out
C1_Witness ==
    /\ reponse.callback = "update_consommation_orientation"
    /\ Len(donnees.consommation) = 2
    /\ Len(reponse.lignes) = 1
    /\ Cardinality(IndicesConsommation(reponse.date_debut, reponse.date_fin)) = 1

\* C2: the consumption time series applies the filter of consumption by
\* orientation: every row it returns has a date within the selected range
\* (the dates of ranks periode[0] and periode[1] of the consumption table)
\* and totals the records of the level, the usage and that range only.
C2_EvolutionFiltreParPeriode ==
    reponse.callback = "update_evolution_consommation" =>
        LET df == donnees.consommation
            debut == DateDeRang(df, reponse.periode[1])
            fin == DateDeRang(df, reponse.periode[2])
            I == IndicesConsommation(debut, fin)
            L == reponse.lignes
        IN  \A j \in DOMAIN L :
               /\ debut <= L[j].date
               /\ L[j].date <= fin
               /\ L[j].consommation =
                     SommeSur(df, {i \in I : df[i].date = L[j].date /\ df[i].orientation = L[j].orientation},
                              "consommation")

\* C3: loading is all-or-nothing: once charger_donnees has returned, its
\* value is the dataset of the four tables and the metadata if all five
\* reads succeeded, and None otherwise, never a dataset of the tables read
\* before the failure.
C3_ChargementToutOuRien ==
    /\ pc = "main_test" => donnees # Indefini
    /\ donnees # Indefini =>
          IF TousLisibles
          THEN /\ donnees.type = "dict"
               /\ \A f \in DOMAIN fichiers : donnees[f] = fichiers[f].contenu
          ELSE donnees = None

\* C3 happens: a read failed after the first table had been read
C3_Witness ==
    /\ donnees = None
    /\ pc = "termine"
    /\ fichiers.consommation.lisible
    /\ fichiers.consommation.contenu # <<>>

\* C4: a load failure is fatal to startup: when a file cannot be read, no
\* map is generated, no callback is registered and the server is not run;
\* the server runs only with the dataset of a successful load.
C4_EchecFatal ==
    /\ ~TousLisibles => ~carte.cree /\ app.callbacks = {} /\ ~app.cree /\ ~serveur
    /\ donnees = None => ~carte.cree /\ ~app.cree /\ ~serveur
    /\ serveur => donnees.type = "dict" /\ TousLisibles

\* C4 happens: main returned after a failed load
C4_Witness == pc = "termine" /\ donnees = None /\ ~TousLisibles /\ ~serveur

\* the table a callback aggregates
TableDe(nom) ==
    IF nom = "update_production_pv" THEN donnees.production
    ELSE IF nom = "update_temperature" THEN donnees.temperature
    ELSE donnees.consommation

\* C5: every aggregation query answers with an empty result, not an
\* error, when its table is empty or when no date of its table lies in the
\* selected range (the dates of ranks periode[0] and periode[1] of the
\* consumption table, whose dates the slider indexes).
C5_ResultatVideSansErreur ==
    reponse.callback \in Callbacks =>
        LET df == TableDe(reponse.callback)
            debut == DateDeRang(donnees.consommation, reponse.periode[1])
            fin == DateDeRang(donnees.consommation, reponse.periode[2])
        IN  (\A i \in DOMAIN df : ~(debut <= df[i].date /\ df[i].date <= fin)) =>
                reponse.statut = "ok" /\ reponse.lignes = <<>>

C7_DonneesInchangees == [][donnees.type = "dict" => donnees' = donnees]_vars

\* C7 happens: the map was built from a non-empty table and a callback
\* has answered
C7_Witness ==
    /\ carte.cree
    /\ carte.df_zones # <<>>
    /\ reponse.callback = "update_tableau_consommations"
    /\ reponse.lignes # <<>>

\* C8: the rows of the consumption time series are in ascending order of
\* date and, for one date, in ascending order of orientation name, whatever
\* the order of the table; no (date, orientation) pair appears twice.
C8_EvolutionTriee ==
    reponse.callback = "update_evolution_consommation" =>
        \A j, k \in DOMAIN reponse.lignes :
            j < k => \/ reponse.lignes[j].date < reponse.lignes[k].date
                     \/ /\ reponse.lignes[j].date = reponse.lignes[k].date
                        /\ OrientationAvant(reponse.lignes[j].orientation, reponse.lignes[k].orientation)

\* C8 happens: two rows returned from a table that lists them in the
\* opposite order
C8_Witness ==
    /\ reponse.callback = "update_evolution_consommation"
    /\ Len(reponse.lignes) = 2
    /\ Len(donnees.consommation) = 2
    /\ \/ donnees.consommation[1].date > donnees.consommation[2].date
       \/ /\ donnees.consommation[1].date = donnees.consommation[2].date
          /\ OrientationAvant(donnees.consommation[2].orientation, donnees.consommation[1].orientation)

C10_MemePlageDeDates ==
    LET rangs == reponse.periode
        c == donnees.consommation
    IN  /\ reponse.callback \in {"update_consommation_orientation", "update_tableau_consommations"} =>
              /\ reponse.statut = "ok"
              /\ reponse.date_debut = DateDeRang(c, rangs[1])
              /\ reponse.date_fin = DateDeRang(c, rangs[2])
        /\ reponse.callback \in {"update_production_pv", "update_temperature"} =>
              LET df == TableDe(reponse.callback)
                  n == Cardinality(DatesDe(df))
              IN  /\ reponse.statut = "ok" =>
                        /\ reponse.date_debut = DateDeRang(df, IF rangs[1] < n THEN rangs[1] ELSE n - 1)
                        /\ reponse.date_fin = DateDeRang(df, IF rangs[2] < n THEN rangs[2] ELSE n - 1)
                  /\ DatesDe(df) = DatesDe(c) =>
                        /\ reponse.statut = "ok"
                        /\ reponse.date_debut = DateDeRang(c, rangs[1])
                        /\ reponse.date_fin = DateDeRang(c, rangs[2])

\* C10 happens: the production callback answered a one-day selection of
\* the second day, its table holding the two days of the consumption table
C10_Witness ==
    /\ reponse.callback = "update_production_pv"
    /\ DatesDe(donnees.production) = DatesDe(donnees.consommation)
    /\ reponse.periode = <<1, 1>>
    /\ reponse.date_debut = 2

====
